---- MODULE Spec2Model ----
(***************************************************************************)
(* Constraint solver for FUN programs: the solver worker.                  *)
(*                                                                         *)
(* One solve = collectExpressions over the labelled AST, the rule script   *)
(* (a sequence of define() calls), the drain loop over the worklist, and   *)
(* the return of the analysis.  Entries and translated rules are objects   *)
(* in the source; here an entry is its index in `entries` (creation order  *)
(* of the Map) and a translated rule is its index in `translated`.         *)
(***************************************************************************)
EXTENDS Integers, Sequences, FiniteSets, TLC

VARIABLES program, expressionByLabel, expressions, labelOfvariableDeclaration,
          entries, worklist, translated, script, cursor, pc, error,
          helper, analysis, parser, runner, provider

vars == <<program, expressionByLabel, expressions, labelOfvariableDeclaration,
          entries, worklist, translated, script, cursor, pc, error,
          helper, analysis, parser, runner, provider>>

(***************************************************************************)
(* Bounds of the model.                                                    *)
(***************************************************************************)
\* define() calls made by one rule script
MaxRules == 2
\* constants of constant rules are 1..MaxVal
MaxVal == 2
\* ceilings of the dynamic callbacks are 1..MaxK
MaxK == 3
\* type() is called with 1..MaxTags tags
MaxTags == 2
\* loops of the rule script over one sequence returned by type()
MaxRuns == 2
\* parsed expressions have 1..MaxNodes nodes
MaxNodes == 6
\* listener functions that the editor may subscribe to the hints provider
MaxListeners == 2
\* calls of onDidChangeInlayHints
MaxSubscriptions == 2
\* calls of setInlayHints and clearInlayHints
MaxCalls == 3

(***************************************************************************)
(* Small helpers on sequences.                                             *)
(***************************************************************************)
Range(s) == {s[i] : i \in 1..Len(s)}

\* the element of a one-element set: {F(x) : x \in {e}} computes e once
Only(S) == CHOOSE x \in S : TRUE

Contains(s, v) == \E i \in 1..Len(s) : s[i] = v

\* an add that moves a value already present to the end
SetAddReinserted(s, v) == Append(SelectSeq(s, LAMBDA x : x # v), v)

\* Set.prototype.add on an insertion-ordered Set: a member keeps its place
SetAdd(s, v) == IF Contains(s, v) THEN s ELSE Append(s, v)

RECURSIVE SetAddAll(_, _)
SetAddAll(s, vs) ==
  IF vs = <<>> THEN s
  ELSE Only({SetAddAll(added, Tail(vs)) : added \in {SetAdd(s, Head(vs))}})

(***************************************************************************)
(* The AST.  A program is the sequence of its nodes, node i carrying       *)
(* label i (the parser labels in pre-order from 1); children are named by  *)
(* label.  Fields a variant does not have are "" / <<>>.                   *)
(***************************************************************************)
Node(type, name, variable, kids) ==
  [type |-> type, name |-> name, variable |-> variable, kids |-> kids]

\* (fn x => x)
FnProgram == << Node("fn", "", "x", <<2>>), Node("var", "x", "", <<>>) >>

\* (fun f x => (f x))
FunProgram ==
  << Node("fun", "f", "x", <<2>>), Node("app", "", "", <<3, 4>>),
     Node("var", "f", "", <<>>), Node("var", "x", "", <<>>) >>

\* (let x = 1 in x)
LetProgram ==
  << Node("let", "", "x", <<2, 3>>), Node("n", "", "", <<>>),
     Node("var", "x", "", <<>>) >>

\* (fn x => (let x = x in x)): node 3 is bound by the fn, node 4 by the let
LetShadowProgram ==
  << Node("fn", "", "x", <<2>>), Node("let", "", "x", <<3, 4>>),
     Node("var", "x", "", <<>>), Node("var", "x", "", <<>>) >>

\* (fn x => (fun x y => (x y))): the fun's name shadows the fn's parameter
FunShadowProgram ==
  << Node("fn", "", "x", <<2>>), Node("fun", "x", "y", <<3>>),
     Node("app", "", "", <<4, 5>>), Node("var", "x", "", <<>>),
     Node("var", "y", "", <<>>) >>

\* (fn x => y): y is bound nowhere
UnboundProgram == << Node("fn", "", "x", <<2>>), Node("var", "y", "", <<>>) >>

\* (let x = x in x): node 2, in the bound value, is outside the let's scope
LetSelfProgram ==
  << Node("let", "", "x", <<2, 3>>), Node("var", "x", "", <<>>),
     Node("var", "x", "", <<>>) >>

\* (fun f f => f)
CollisionProgram == << Node("fun", "f", "f", <<2>>), Node("var", "f", "", <<>>) >>

\* (fn x => (fun f f => x))
NestedCollisionProgram ==
  << Node("fn", "", "x", <<2>>), Node("fun", "f", "f", <<3>>),
     Node("var", "x", "", <<>>) >>

\* (let x = y in (fun f f => f)): the unbound y is visited before the fun
UnboundBeforeCollisionProgram ==
  << Node("let", "", "x", <<2, 3>>), Node("var", "y", "", <<>>),
     Node("fun", "f", "f", <<4>>), Node("var", "f", "", <<>>) >>

\* (fn x => (fn x_ => x)): two binders whose names differ by a trailing "_"
UnderscoreProgram ==
  << Node("fn", "", "x", <<2>>), Node("fn", "", "x_", <<3>>),
     Node("var", "x", "", <<>>) >>

\* (fn x => constructor): a name the grammar admits and nothing binds
ConstructorProgram ==
  << Node("fn", "", "x", <<2>>), Node("var", "constructor", "", <<>>) >>

Operators == {"+", "-", "*", "/", "<", ">", "<=", ">=", "==", "!=", "||", "&&"}

(***************************************************************************)
(* Context: a plain object name -> label.  A lookup of a name that is not  *)
(* an own property falls through to Object.prototype, so the names of its  *)
(* members that the grammar /[a-z_]+/ admits are not `undefined`.          *)
(***************************************************************************)
ObjectPrototypeNames == {"constructor", "__proto__"}

\* the value of context[name]; "undefined" when the lookup yields undefined
ContextGet(context, name) ==
  IF name \in DOMAIN context THEN ToString(context[name])
  ELSE IF name \in ObjectPrototypeNames THEN "inherited"
  ELSE "undefined"

\* extendContext with the entries concatenated the other way round: a name
\* that the context already binds keeps its outer label
extendContextOuterWins(context, names, label) ==
  [n \in (DOMAIN context) \cup names |->
     IF n \in DOMAIN context THEN context[n] ELSE label]

\* extendContext(...names): the names are bound to the label of the node
extendContext(context, names, label) ==
  [n \in (DOMAIN context) \cup names |->
     IF n \in names THEN label ELSE context[n]]

EmptyContext == [n \in {} |-> 0]

(***************************************************************************)
(* collectExpressions.  acc = [error, visited, decl]: the error thrown (or *)
(* "none"), the labels in the order they were indexed, and the map         *)
(* var node -> context[name] (as the string that a template prints).       *)
(***************************************************************************)
EmptyScope == [error |-> "none", visited |-> <<>>, decl |-> [n \in {} |-> ""]]

\* a check that lets every fun node pass
NameCollidesNever(expression) == FALSE

\* expression.name === expression.variable
NameCollides(expression) == expression.name = expression.variable

RECURSIVE collectExpressions(_, _, _, _)
RECURSIVE collectAll(_, _, _, _)

\* collectExpressions on each child in turn, all in the same context
collectAll(prog, kids, context, acc) ==
  IF kids = <<>> THEN acc
  ELSE collectAll(prog, Tail(kids), context,
                  collectExpressions(prog, Head(kids), context, acc))

collectExpressions(prog, label, context, acc) ==
  IF acc.error # "none" THEN acc
  ELSE
    LET expression == prog[label]
        indexed == [acc EXCEPT !.visited = Append(@, label)]
    IN  CASE expression.type \in {"n", "true", "false"} -> indexed
          [] expression.type = "var" ->
               IF ContextGet(context, expression.name) = "undefined"
               THEN [indexed EXCEPT !.error = "UnboundVariable"]
               ELSE [indexed EXCEPT !.decl =
                       [n \in (DOMAIN @) \cup {label} |->
                          IF n = label
                          THEN ContextGet(context, expression.name)
                          ELSE @[n]]]
          [] expression.type \in Operators \cup {"if", "app"} ->
               collectAll(prog, expression.kids, context, indexed)
          [] expression.type = "fn" ->
               collectExpressions(prog, expression.kids[1],
                 extendContext(context, {expression.variable}, label), indexed)
          [] expression.type = "fun" ->
               IF NameCollides(expression)
               THEN [indexed EXCEPT !.error = "NameCollision"]
               ELSE collectExpressions(prog, expression.kids[1],
                      extendContext(context,
                        {expression.name, expression.variable}, label), indexed)
          [] expression.type = "let" ->
               collectExpressions(prog, expression.kids[2],
                 extendContext(context, {expression.variable}, label),
                 collectExpressions(prog, expression.kids[1], context, indexed))

\* the Map type -> Set of nodes, each Set in insertion order
ExpressionsIndex(prog, visited) ==
  [t \in {prog[visited[i]].type : i \in 1..Len(visited)} |->
     SelectSeq(visited, LAMBDA l : prog[l].type = t)]

(***************************************************************************)
(* Entry store.  An entry is [id, key, data, rules]: the id it is stored   *)
(* under in the Map, its key (a number for category C, a string for        *)
(* category p), its data (a Set, in insertion order) and its rules (a Set  *)
(* of translated rules, in insertion order).                               *)
(***************************************************************************)
NumberKey(n) == [isNumber |-> TRUE, number |-> n, string |-> ""]

StringKey(s) == [isNumber |-> FALSE, number |-> 0, string |-> s]

\* the text a template literal prints for a key
KeyText(key) == IF key.isNumber THEN ToString(key.number) ELSE key.string

EntryId(category, key) == category \o "(" \o KeyText(key) \o ")"

HasEntry(store, id) == \E i \in 1..Len(store) : store[i].id = id

EntryIndex(store, id) == CHOOSE i \in 1..Len(store) : store[i].id = id

\* an entry created at every call, whether or not the id is already stored
getOrCreateEntryFresh(store, category, key) ==
  [entries |-> Append(store, [id |-> EntryId(category, key), key |-> key,
                               data |-> <<>>, rules |-> <<>>]),
   entry |-> Len(store) + 1]

\* [entries, entry]: the store after the call and the entry returned
getOrCreateEntry(store, category, key) ==
  LET id == EntryId(category, key)
  IN  IF HasEntry(store, id)
      THEN [entries |-> store, entry |-> EntryIndex(store, id)]
      ELSE [entries |-> Append(store, [id |-> id, key |-> key,
                                        data |-> <<>>, rules |-> <<>>]),
            entry |-> Len(store) + 1]

(***************************************************************************)
(* References.  A reference is a record with the one field that names its  *)
(* shape, holding the label of the node it points at: [variable |-> 2],    *)
(* [boundVariable |-> 1], [functionVariable |-> 1], [expression |-> 1].    *)
(* The result is [error, entries, entry].                                  *)
(***************************************************************************)
Resolved(r) == [error |-> "none", entries |-> r.entries, entry |-> r.entry]

Unresolved(store) == [error |-> "UnknownReference", entries |-> store, entry |-> 0]

getEntryFromReference(store, ref, prog, decl) ==
  IF "variable" \in DOMAIN ref
  THEN IF ref.variable \in DOMAIN decl
       THEN Resolved(getOrCreateEntry(store, "p",
              StringKey(prog[ref.variable].name \o "#" \o decl[ref.variable])))
       ELSE Unresolved(store)
  ELSE IF "boundVariable" \in DOMAIN ref
  THEN Resolved(getOrCreateEntry(store, "p",
         StringKey(prog[ref.boundVariable].variable \o "#"
                   \o ToString(ref.boundVariable))))
  ELSE IF "functionVariable" \in DOMAIN ref
  THEN Resolved(getOrCreateEntry(store, "p",
         StringKey(prog[ref.functionVariable].name \o "#"
                   \o ToString(ref.functionVariable))))
  ELSE IF "expression" \in DOMAIN ref
  THEN Resolved(getOrCreateEntry(store, "C", NumberKey(ref.expression)))
  ELSE Unresolved(store)

\* dependencies.map(getEntryFromReference): [error, entries, deps]
RECURSIVE mapReferences(_, _, _, _, _)
mapReferences(store, refs, prog, decl, deps) ==
  IF refs = <<>> THEN [error |-> "none", entries |-> store, deps |-> deps]
  ELSE Only({
         IF r.error # "none"
         THEN [error |-> r.error, entries |-> r.entries, deps |-> deps]
         ELSE mapReferences(r.entries, Tail(refs), prog, decl,
                            Append(deps, r.entry))
         : r \in {getEntryFromReference(store, Head(refs), prog, decl)} })

(***************************************************************************)
(* Dynamic callbacks.  The callback is the rule author's code; the model   *)
(* draws it from two families, each with a ceiling k or without one:       *)
(*   next: yields the smallest positive integer missing from its           *)
(*         dependencies' data, while they hold fewer than k values;        *)
(*   succ: yields 1 and v + 1 for every v in its dependencies' data,       *)
(*         up to k (pure and monotone).                                    *)
(***************************************************************************)
Callback(kind, capped, ceiling) ==
  [kind |-> kind, capped |-> capped, ceiling |-> ceiling]

NoCallback == Callback("none", FALSE, 0)

RECURSIVE Concat(_)
Concat(seqs) == IF seqs = <<>> THEN <<>> ELSE Head(seqs) \o Concat(Tail(seqs))

SmallestMissing(S) == CHOOSE n \in 1..(Cardinality(S) + 1) :
                        n \notin S /\ \A m \in 1..(n - 1) : m \in S

RECURSIVE Successors(_, _)
Successors(values, cb) ==
  IF values = <<>> THEN <<>>
  ELSE IF cb.capped /\ Head(values) + 1 > cb.ceiling
       THEN Successors(Tail(values), cb)
       ELSE <<Head(values) + 1>> \o Successors(Tail(values), cb)

\* dynamic(dependencies.map(dep => dep.data)): the values yielded, in order
CallDynamic(cb, depData) ==
  LET values == Concat(depData)
  IN  IF cb.kind = "next"
      THEN IF cb.capped /\ Cardinality(Range(values)) >= cb.ceiling
           THEN <<>>
           ELSE << SmallestMissing(Range(values)) >>
      ELSE <<1>> \o Successors(values, cb)

(***************************************************************************)
(* Translated rules and the worklist.  eng = [entries, worklist,           *)
(* translated]; worklist is a Set of entries in insertion order.           *)
(***************************************************************************)
Engine(store, wl, tr) == [entries |-> store, worklist |-> wl, translated |-> tr]

\* rule.lhs: the values the getter yields against the current entry data
Lhs(store, rule) ==
  IF rule.kind = "constant" THEN << rule.constant >>
  ELSE IF rule.kind = "dynamic"
  THEN CallDynamic(rule.dynamic,
         [i \in 1..Len(rule.dependencies) |-> store[rule.dependencies[i]].data])
  ELSE store[rule.dependencies[1]].data

\* rhs.data replaced by the yielded values instead of extended by them
AddValuesReplacing(data, values) == SetAddAll(<<>>, values)

\* rhs.data extended by the yielded values and by one value nobody yielded
AddValuesUnyielded(data, values) == SetAddAll(data, values \o <<0>>)

\* rhs.data after the loop over the yielded values
AddValues(data, values) == SetAddAll(data, values)

\* an entry put in front of the entries that are waiting
WorklistAddFront(wl, entry) == IF Contains(wl, entry) THEN wl ELSE <<entry>> \o wl

\* an entry appended whether or not it is a member
WorklistAddDuplicating(wl, entry) == Append(wl, entry)

\* worklist.add(rule.rhs)
WorklistAdd(wl, entry) == SetAdd(wl, entry)

\* A lazy callback (a generator) runs inside the loop of enactRule: it
\* yields 1 and then, for each member v of its first dependency's Set, v + 1
\* up to its ceiling.  It is handed the Set itself, so when that Set is
\* rhs.data it meets the values the loop has inserted so far.  data is
\* rhs.data so far, i the member the generator's iterator is at.
RECURSIVE ConsumeLazy(_, _, _, _)
ConsumeLazy(store, rule, data, i) ==
  LET dep == rule.dependencies[1]
      members == IF dep = rule.rhs THEN data ELSE store[dep].data
  IN  IF i > Len(members) THEN data
      ELSE ConsumeLazy(store, rule,
                       IF rule.dynamic.capped
                            /\ members[i] + 1 > rule.dynamic.ceiling
                       THEN data ELSE SetAdd(data, members[i] + 1),
                       i + 1)

\* rhs.data after the loop over a lazy callback
EnactLazily(store, rule) ==
  ConsumeLazy(store, rule, SetAdd(store[rule.rhs].data, 1), 1)

IsLazy(rule) == rule.kind = "dynamic" /\ rule.dynamic.kind = "lazy"

\* an enactment that inserts the values and never marks the rhs entry
enactRuleNeverMarks(engine, r) ==
  Only({ LET rule == eng.translated[r]
         IN  [eng EXCEPT !.entries[rule.rhs].data =
                           AddValues(@, Lhs(eng.entries, rule))]
         : eng \in {engine} })

enactRule(engine, r) ==
  Only({ LET rule == eng.translated[r]
             data == eng.entries[rule.rhs].data
             grown == IF IsLazy(rule) THEN EnactLazily(eng.entries, rule)
                      ELSE AddValues(data, Lhs(eng.entries, rule))
             updated == grown # data
         IN  [eng EXCEPT !.entries[rule.rhs].data = grown,
                         !.worklist = IF updated THEN WorklistAdd(@, rule.rhs)
                                                 ELSE @]
         : eng \in {engine} })

\* rules.forEach(enactRule)
RECURSIVE enactAll(_, _)
enactAll(eng, rs) ==
  IF rs = <<>> THEN eng
  ELSE Only({enactAll(enacted, Tail(rs)) : enacted \in {enactRule(eng, Head(rs))}})

\* the reverse link made from the first dependency only
AddToRulesOfFirst(store, deps, r) ==
  IF deps = <<>> THEN store
  ELSE [store EXCEPT ![Head(deps)].rules = SetAdd(@, r)]

\* the reverse link from the dependencies to the rule left out
AddToRulesSkipped(store, deps, r) == store

\* dep.rules.add(translatedRule) for each dependency in turn
RECURSIVE AddToRules(_, _, _)
AddToRules(store, deps, r) ==
  IF deps = <<>> THEN store
  ELSE AddToRules([store EXCEPT ![Head(deps)].rules = SetAdd(@, r)],
                  Tail(deps), r)

TranslatedRule(kind, constant, dynamic, dependencies, rhs) ==
  [kind |-> kind, constant |-> constant, dynamic |-> dynamic,
   dependencies |-> dependencies, rhs |-> rhs]

\* a constant rule that is also linked into the rules of its rhs entry
defineConstantLinked(eng, rule, rhs, r) ==
  enactRule(Engine(AddToRules(rhs.entries, <<rhs.entry>>, r), eng.worklist,
                   Append(eng.translated,
                          TranslatedRule("constant", rule.lhs.constant,
                                         NoCallback, <<>>, rhs.entry))), r)

\* the three kinds of translated rule, registered with their dependencies
\* and enacted once; r is the new rule, rhs and lhs are resolved references
defineConstant(eng, rule, rhs, r) ==
  enactRule(Engine(rhs.entries, eng.worklist,
                   Append(eng.translated,
                          TranslatedRule("constant", rule.lhs.constant,
                                         NoCallback, <<>>, rhs.entry))), r)

defineDynamic(eng, rule, rhs, deps, r) ==
  enactRule(Engine(AddToRules(deps.entries, deps.deps, r), eng.worklist,
                   Append(eng.translated,
                          TranslatedRule("dynamic", 0, rule.lhs.dynamic,
                                         deps.deps, rhs.entry))), r)

defineReference(eng, rule, rhs, lhs, r) ==
  enactRule(Engine(AddToRules(lhs.entries, <<lhs.entry>>, r), eng.worklist,
                   Append(eng.translated,
                          TranslatedRule("reference", 0, NoCallback,
                                         <<lhs.entry>>, rhs.entry))), r)

\* the TypeError of an unresolved reference dropped: define() returns
ThrownSwallowed(eng, res) == [error |-> "none", eng |-> [eng EXCEPT !.entries = res.entries]]

\* a reference of the rule did not resolve: the error, the entries so far
Thrown(eng, res) == [error |-> res.error, eng |-> [eng EXCEPT !.entries = res.entries]]

Defined(eng) == [error |-> "none", eng |-> eng]

\* defineRule: [error, eng]
defineRule(eng, rule, prog, decl) ==
  Only({
    IF rhs.error # "none" THEN Thrown(eng, rhs)
    ELSE IF "constant" \in DOMAIN rule.lhs
    THEN Defined(defineConstant(eng, rule, rhs, Len(eng.translated) + 1))
    ELSE IF "dynamic" \in DOMAIN rule.lhs /\ "dependencies" \in DOMAIN rule.lhs
    THEN Only({
           IF deps.error # "none" THEN Thrown(eng, deps)
           ELSE Defined(defineDynamic(eng, rule, rhs, deps,
                                      Len(eng.translated) + 1))
           : deps \in {mapReferences(rhs.entries, rule.lhs.dependencies,
                                     prog, decl, <<>>)} })
    ELSE Only({
           IF lhs.error # "none" THEN Thrown(eng, lhs)
           ELSE Defined(defineReference(eng, rule, rhs, lhs,
                                        Len(eng.translated) + 1))
           : lhs \in {getEntryFromReference(rhs.entries, rule.lhs, prog, decl)} })
    : rhs \in {getEntryFromReference(eng.entries, rule.rhs, prog, decl)} })

(***************************************************************************)
(* The inputs of a solve: the program and the rules of the rule script.    *)
(***************************************************************************)
Labels(prog) == 1..Len(prog)

References(prog) ==
  {[variable |-> l] : l \in {n \in Labels(prog) : prog[n].type = "var"}}
  \cup {[boundVariable |-> l] :
          l \in {n \in Labels(prog) : prog[n].type \in {"fn", "fun", "let"}}}
  \cup {[functionVariable |-> l] :
          l \in {n \in Labels(prog) : prog[n].type = "fun"}}
  \cup {[expression |-> l] : l \in Labels(prog)}

Values == 1..MaxVal

\* the monotone callback of the propagation runs
SuccCallback == Callback("succ", TRUE, MaxK)

\* the generator that yields while enactRule inserts
LazyCallback == Callback("lazy", TRUE, MaxK)

\* the callbacks of scenario F: a ceiling k in 1..MaxK, or none
NextCallbacks ==
  {Callback("next", TRUE, k) : k \in 1..MaxK} \cup {Callback("next", FALSE, 0)}

ConstantRules(prog) ==
  {[lhs |-> [constant |-> v], rhs |-> rhs] :
     v \in Values, rhs \in References(prog)}

ReferenceRules(prog) ==
  {[lhs |-> lhs, rhs |-> rhs] :
     lhs \in References(prog), rhs \in References(prog)}

DynamicRule(cb, deps, rhs) ==
  [lhs |-> [dynamic |-> cb, dependencies |-> deps], rhs |-> rhs]

DynamicRules(prog, callbacks) ==
  {DynamicRule(cb, <<dep>>, rhs) :
     cb \in callbacks, dep \in References(prog), rhs \in References(prog)}

\* constant, reference and pure monotone dynamic rules over a finite domain
Rules(prog) ==
  ConstantRules(prog) \cup ReferenceRules(prog)
  \cup DynamicRules(prog, {SuccCallback})

\* scenario F: dynamic rules whose callback adds one new value per evaluation
ScenarioFRules(prog) == DynamicRules(prog, NextCallbacks)

\* references that do not resolve: a var node that is not a node of the AST
\* (the scope resolver has not seen it), and an object of no known shape
BadReferences(prog) == {[variable |-> Len(prog) + 1], [unknown |-> 1]}

AnyReferences(prog) == References(prog) \cup BadReferences(prog)

\* rules with a reference that does not resolve: as rhs, as reference lhs, or
\* among one or two dependencies of a dynamic lhs
UnresolvableRules(prog) ==
  {[lhs |-> [constant |-> 1], rhs |-> rhs] : rhs \in BadReferences(prog)}
  \cup {rule \in {[lhs |-> lhs, rhs |-> rhs] :
                    lhs \in AnyReferences(prog), rhs \in AnyReferences(prog)} :
          {rule.lhs, rule.rhs} \cap BadReferences(prog) # {}}
  \cup {rule \in {DynamicRule(SuccCallback, deps, rhs) :
                    deps \in {<<d>> : d \in AnyReferences(prog)}
                           \cup (AnyReferences(prog) \X AnyReferences(prog)),
                    rhs \in AnyReferences(prog)} :
          (Range(rule.lhs.dependencies) \cup {rule.rhs})
            \cap BadReferences(prog) # {}}

\* fan-in: dynamic rules with one or two dependencies, over one reference
\* per entry of (fn x => x), and the constant rules that feed them
FanReferences == {[variable |-> 2], [expression |-> 1], [expression |-> 2]}

FanRules ==
  {[lhs |-> [constant |-> v], rhs |-> rhs] : v \in Values, rhs \in FanReferences}
  \cup {DynamicRule(SuccCallback, deps, rhs) :
          deps \in {<<d>> : d \in FanReferences}
                 \cup (FanReferences \X FanReferences),
          rhs \in FanReferences}

\* the programs of the propagation runs and of the scope-resolution runs
SolverPrograms == {FnProgram}

ScopePrograms ==
  {FnProgram, FunProgram, LetProgram, LetShadowProgram, FunShadowProgram}

(***************************************************************************)
(* The analysis: the entries sorted by key, each with its values.  The     *)
(* strings are compared by localeCompare, whose order is the host's: the   *)
(* root collation of the Unicode collation algorithm (punctuation before   *)
(* digits before letters, "_" before "#") or, without collation data, the  *)
(* order of the code units ("#" before digits before "_" before letters).  *)
(* An order is the string of the characters of the keys, smallest first.   *)
(***************************************************************************)
CodeUnitOrder == "#0123456789_abcdefghijklmnopqrstuvwxyz"

RootCollationOrder == "_#0123456789abcdefghijklmnopqrstuvwxyz"

Collations == {RootCollationOrder, CodeUnitOrder}

\* the rank of character c in the order
Weight(order, c) == CHOOSE i \in 1..Len(order) : SubSeq(order, i, i) = c

\* a.localeCompare(b): negative, zero or positive
RECURSIVE localeCompare(_, _, _)
localeCompare(a, b, order) ==
  IF a = "" THEN (IF b = "" THEN 0 ELSE -1)
  ELSE IF b = "" THEN 1
  ELSE IF Head(a) = Head(b) THEN localeCompare(Tail(a), Tail(b), order)
  ELSE IF Weight(order, Head(a)) < Weight(order, Head(b)) THEN -1 ELSE 1

\* the comparator handed to sort
compareEntries(a, b, order) ==
  IF a.key.isNumber /\ b.key.isNumber THEN a.key.number - b.key.number
  ELSE IF ~a.key.isNumber /\ ~b.key.isNumber
  THEN localeCompare(a.key.string, b.key.string, order)
  ELSE IF a.key.isNumber THEN -1 ELSE 1

\* x put into the sorted sequence s, behind the elements it does not precede
RECURSIVE Insert(_, _, _)
Insert(s, x, order) ==
  IF s = <<>> THEN <<x>>
  ELSE IF compareEntries(x, Head(s), order) < 0 THEN <<x>> \o s
  ELSE <<Head(s)>> \o Insert(Tail(s), x, order)

\* Array.prototype.sort: stable, by the comparator
RECURSIVE sort(_, _, _)
sort(s, sorted, order) ==
  IF s = <<>> THEN sorted
  ELSE sort(Tail(s), Insert(sorted, Head(s), order), order)

\* an analysis that leaves out the entries without values
AnalysisOfFilled(store, order) ==
  LET sorted == sort(SelectSeq(store, LAMBDA e : e.data # <<>>), <<>>, order)
  IN  [i \in 1..Len(sorted) |->
         [name |-> sorted[i].id, values |-> sorted[i].data]]

\* the analysis: [name, values] per entry, in the order of the object's keys
Analysis(store, order) ==
  LET sorted == sort(store, <<>>, order)
  IN  [i \in 1..Len(sorted) |->
         [name |-> sorted[i].id, values |-> sorted[i].data]]

(***************************************************************************)
(* The helpers of the environment.  helper is the value the last call of   *)
(* label() or type() returned to the rule script.                          *)
(***************************************************************************)
NoHelper == [call |-> "none"]

\* the node of the next label handed out, if there is one
getExpressionByLabelNext(byLabel, label) ==
  IF label + 1 \in DOMAIN byLabel
  THEN [error |-> "none", node |-> byLabel[label + 1]]
  ELSE [error |-> "UnknownLabel", node |-> 0]

\* expressionByLabel.get(label) ?? _throw(...): [error, node]
getExpressionByLabel(byLabel, label) ==
  IF label \in DOMAIN byLabel
  THEN [error |-> "none", node |-> byLabel[label]]
  ELSE [error |-> "UnknownLabel", node |-> 0]

\* the body of the generator run from its start to its end: for each type
\* in turn, the nodes of its collection
RECURSIVE getExpressionsOfType(_, _)
getExpressionsOfType(index, types) ==
  IF types = <<>> THEN <<>>
  ELSE (IF Head(types) \in DOMAIN index THEN index[Head(types)] ELSE <<>>)
       \o getExpressionsOfType(index, Tail(types))

\* the generator object that a call of type() returns: it has not started,
\* and runs holds what each loop over it has yielded so far
Generator(types) ==
  [call |-> "type", types |-> types, finished |-> FALSE, runs |-> <<>>]

\* `for (const e of generator)` to its end: the generator is its own
\* iterator, so the loop resumes it where it is
IterateGenerator(index, generator) ==
  [generator EXCEPT
     !.runs = Append(@, IF generator.finished THEN <<>>
                        ELSE getExpressionsOfType(index, generator.types)),
     !.finished = TRUE]


(***************************************************************************)
(* The solver worker as a state machine.  pc: "start" (input received),    *)
(* "script" (the rule script is running), "drain" (the loop over the       *)
(* worklist), "done" (analysis returned), "failed" (an error was thrown).  *)
(***************************************************************************)
\* The parser worker has its own state; the solver worker runs with no parse
\* in progress.
NoParse == [stage |-> "idle"]

\* The runner worker and the editor's inlay hints provider have their own
\* state as well; nothing of them is in use while the solver worker runs.
NoRun == [stage |-> "idle"]

NoProvider == [stage |-> "unused"]

InitWith(programs) ==
  /\ program \in programs
  /\ expressionByLabel = [l \in {} |-> 0]
  /\ expressions = [t \in {} |-> <<>>]
  /\ labelOfvariableDeclaration = [n \in {} |-> ""]
  /\ entries = <<>>
  /\ worklist = <<>>
  /\ translated = <<>>
  /\ script = <<>>
  /\ cursor = 0
  /\ pc = "start"
  /\ error = "none"
  /\ helper = NoHelper
  /\ analysis = <<>>
  /\ parser = NoParse
  /\ runner = NoRun
  /\ provider = NoProvider

Init == InitWith(SolverPrograms)

\* collectExpressions(expression, {})
CollectExpressions ==
  /\ pc = "start"
  /\ LET acc == collectExpressions(program, 1, EmptyContext, EmptyScope)
     IN  /\ expressionByLabel' = [l \in Range(acc.visited) |-> l]
         /\ expressions' = ExpressionsIndex(program, acc.visited)
         /\ labelOfvariableDeclaration' = acc.decl
         /\ error' = acc.error
         /\ pc' = IF acc.error = "none" THEN "script" ELSE "failed"
  /\ UNCHANGED <<program, entries, worklist, translated, script, cursor,
                 helper, analysis, parser, runner, provider>>

\* one define(rule) call of the rule script
Define(rule) ==
  /\ pc = "script"
  /\ Len(script) < MaxRules
  /\ \E d \in {defineRule(Engine(entries, worklist, translated), rule,
                          program, labelOfvariableDeclaration)} :
         /\ entries' = d.eng.entries
         /\ worklist' = d.eng.worklist
         /\ translated' = d.eng.translated
         /\ error' = d.error
         /\ pc' = IF d.error = "none" THEN "script" ELSE "failed"
  /\ script' = Append(script, rule)
  /\ UNCHANGED <<program, expressionByLabel, expressions,
                 labelOfvariableDeclaration, cursor, helper, analysis, parser,
                 runner, provider>>

\* the rule script returns; the loop over the worklist starts
ScriptReturns ==
  /\ pc = "script"
  /\ pc' = "drain"
  /\ cursor' = 0
  /\ UNCHANGED <<program, expressionByLabel, expressions,
                 labelOfvariableDeclaration, entries, worklist, translated,
                 script, error, helper, analysis, parser, runner, provider>>

\* an iterator that passes over every second member
AdvanceSkipping(c) == c + 2

\* an iterator that keeps returning the member it is at
AdvanceStuck(c) == c

\* the Set iterator moves to the next member of the worklist
Advance(c) == c + 1

\* one iteration of `for (const entry of worklist)`
DrainStep ==
  /\ pc = "drain"
  /\ cursor < Len(worklist)
  /\ \E eng \in {enactAll(Engine(entries, worklist, translated),
                           entries[worklist[cursor + 1]].rules)} :
         /\ entries' = eng.entries
         /\ worklist' = eng.worklist
         /\ translated' = eng.translated
  /\ cursor' = Advance(cursor)
  /\ UNCHANGED <<program, expressionByLabel, expressions,
                 labelOfvariableDeclaration, script, pc, error, helper,
                 analysis, parser, runner, provider>>

\* the iterator is exhausted; the analysis is returned
Return ==
  /\ pc = "drain"
  /\ cursor = Len(worklist)
  /\ pc' = "done"
  /\ \E order \in Collations : analysis' = Analysis(entries, order)
  /\ UNCHANGED <<program, expressionByLabel, expressions,
                 labelOfvariableDeclaration, entries, worklist, translated,
                 script, cursor, error, helper, parser, runner, provider>>

\* the rule script calls define() with any rule over the program
DefineAny ==
  /\ pc = "script"
  /\ Len(script) < MaxRules
  /\ \E rule \in Rules(program) : Define(rule)

Next == CollectExpressions \/ DefineAny \/ ScriptReturns \/ DrainStep \/ Return

Spec == Init /\ [][Next]_vars

\* the worker runs to completion once started: no step waits on anything
LiveSpec == Init /\ [][Next]_vars /\ WF_vars(Next)

\* the rule script defines rules of scenario F
DefineScenarioF ==
  /\ pc = "script"
  /\ Len(script) < MaxRules
  /\ \E rule \in ScenarioFRules(program) : Define(rule)

NextF ==
  CollectExpressions \/ DefineScenarioF \/ ScriptReturns \/ DrainStep \/ Return

SpecF == Init /\ [][NextF]_vars

\* the rule script defines constant rules over programs with nested binders
DefineConstant ==
  /\ pc = "script"
  /\ Len(script) < MaxRules
  /\ \E rule \in ConstantRules(program) : Define(rule)

InitScope == InitWith(ScopePrograms)

\* scope resolution over programs that resolve and programs that do not
ResolvePrograms ==
  ScopePrograms \cup {UnboundProgram, LetSelfProgram, CollisionProgram,
                      NestedCollisionProgram, UnboundBeforeCollisionProgram,
                      ConstructorProgram}

InitResolve == InitWith(ResolvePrograms)

NextScope ==
  CollectExpressions \/ DefineConstant \/ ScriptReturns \/ DrainStep \/ Return

SpecScope == InitScope /\ [][NextScope]_vars

SpecResolve == InitResolve /\ [][NextScope]_vars

\* constant rules over programs whose entries have number and string keys
InitSort == InitWith({UnderscoreProgram, FunProgram})

SpecSort == InitSort /\ [][NextScope]_vars

\* the rule script calls label(n)
LabelCall ==
  /\ pc = "script"
  /\ \E n \in 0..(Len(program) + 1) :
       \E r \in {getExpressionByLabel(expressionByLabel, n)} :
         /\ helper' = [call |-> "label", label |-> n, node |-> r.node]
         /\ error' = r.error
         /\ pc' = IF r.error = "none" THEN "script" ELSE "failed"
  /\ UNCHANGED <<program, expressionByLabel, expressions,
                 labelOfvariableDeclaration, entries, worklist, translated,
                 script, cursor, analysis, parser, runner, provider>>

\* type tags the rule script asks for; no node of the programs is an if
TypeTags == {"fun", "app", "var", "if"}

TagLists == UNION {[1..n -> TypeTags] : n \in 1..MaxTags}

\* the rule script calls type(t1, ..., tn)
TypeCall ==
  /\ pc = "script"
  /\ \E types \in TagLists : helper' = Generator(types)
  /\ UNCHANGED <<program, expressionByLabel, expressions,
                 labelOfvariableDeclaration, entries, worklist, translated,
                 script, cursor, pc, error, analysis, parser,
                 runner, provider>>

\* the rule script loops over the sequence that type() returned
Iterate ==
  /\ pc = "script"
  /\ helper.call = "type"
  /\ Len(helper.runs) < MaxRuns
  /\ helper' = IterateGenerator(expressions, helper)
  /\ UNCHANGED <<program, expressionByLabel, expressions,
                 labelOfvariableDeclaration, entries, worklist, translated,
                 script, cursor, pc, error, analysis, parser,
                 runner, provider>>

\* define({lhs: {constant: 1}, rhs: {expression: label(n)}})
DefineAtLabel ==
  /\ pc = "script"
  /\ Len(script) < MaxRules
  /\ helper.call = "label"
  /\ Define([lhs |-> [constant |-> 1], rhs |-> [expression |-> helper.node]])

InitEnv == InitWith({FunProgram})

NextEnv ==
  \/ CollectExpressions
  \/ LabelCall
  \/ TypeCall
  \/ Iterate
  \/ DefineAtLabel
  \/ ScriptReturns
  \/ DrainStep
  \/ Return

SpecEnv == InitEnv /\ [][NextEnv]_vars

\* the rule script defines constant rules and rules that do not resolve
DefineUnresolvable ==
  /\ pc = "script"
  /\ Len(script) < MaxRules
  /\ \E rule \in UnresolvableRules(program) : Define(rule)

NextRef ==
  \/ CollectExpressions
  \/ DefineConstant
  \/ DefineUnresolvable
  \/ ScriptReturns
  \/ DrainStep
  \/ Return

SpecRef == Init /\ [][NextRef]_vars

\* the rule script defines rules with fan-in
DefineFan ==
  /\ pc = "script"
  /\ Len(script) < MaxRules
  /\ \E rule \in FanRules : Define(rule)

NextFan == CollectExpressions \/ DefineFan \/ ScriptReturns \/ DrainStep \/ Return

SpecFan == Init /\ [][NextFan]_vars

\* the rule script defines constant rules and rules with a lazy callback
LazyRules(prog) == ConstantRules(prog) \cup DynamicRules(prog, {LazyCallback})

DefineLazy ==
  /\ pc = "script"
  /\ Len(script) < MaxRules
  /\ \E rule \in LazyRules(program) : Define(rule)

NextLazy == CollectExpressions \/ DefineLazy \/ ScriptReturns \/ DrainStep \/ Return

SpecLazy == Init /\ [][NextLazy]_vars

\* any rule script over a program that resolves or one that does not:
\* rules that propagate and rules whose references do not resolve
InitAny == InitWith({FnProgram, UnboundProgram})

NextAny ==
  \/ CollectExpressions
  \/ DefineAny
  \/ DefineUnresolvable
  \/ ScriptReturns
  \/ DrainStep
  \/ Return

SpecAny == InitAny /\ [][NextAny]_vars

(***************************************************************************)
(* Fixpoint and re-processing.                                             *)
(***************************************************************************)
ValuesOf(e) == Range(entries[e].data)

\* the rule's lhs, evaluated now, yields nothing its rhs entry lacks
Satisfied(r) ==
  Range(Lhs(entries, translated[r])) \subseteq ValuesOf(translated[r].rhs)

\* C1: when the drain loop has ended, every rule registered through define()
\* is satisfied by the final entry data: all values its lhs yields are in the
\* data of its rhs entry.
C1_FixpointReached ==
  pc = "done" => \A r \in 1..Len(translated) : Satisfied(r)

\* the entries the iterator has already taken from the worklist
Dequeued(c) == {worklist[i] : i \in 1..c}

\* C2: an entry whose data grows in a drain step after the entry was dequeued
\* is pending again after that step (it lies ahead of the iterator), so that
\* its rules are re-enacted against the grown data.
C2_GrownEntryPendingAgain ==
  [][pc = "drain" =>
       \A e \in Dequeued(cursor') :
         entries'[e].data # entries[e].data =>
           \E i \in (cursor' + 1)..Len(worklist') : worklist'[i] = e]_vars

(***************************************************************************)
(* Least fixpoint and order of the define() calls.                         *)
(***************************************************************************)
\* every dynamic callback defined so far is pure, monotone and has a ceiling
PureMonotone ==
  \A r \in 1..Len(translated) :
    translated[r].kind = "dynamic" =>
      translated[r].dynamic.kind = "succ" /\ translated[r].dynamic.capped

AllRules(eng) == [r \in 1..Len(eng.translated) |-> r]

\* enact every rule, round after round, until no entry changes
RECURSIVE Saturate(_)
Saturate(eng) ==
  LET round == enactAll(eng, AllRules(eng))
  IN  IF round.entries = eng.entries THEN eng ELSE Saturate(round)

\* the least assignment of values to entries that satisfies every rule:
\* the limit of the rounds that start from empty entries
LeastFixpoint ==
  Saturate(Engine([e \in 1..Len(entries) |-> [entries[e] EXCEPT !.data = <<>>]],
                  <<>>, translated)).entries

\* C3: for constant, reference and pure monotone dynamic rules over a finite
\* domain, the values of each entry in the final analysis are exactly its
\* values in the least fixpoint of the rule system.
C3_LeastFixpoint ==
  (pc = "done" /\ PureMonotone) =>
    \A e \in 1..Len(entries) : ValuesOf(e) = Range(LeastFixpoint[e].data)

\* the define() calls of a script, one after the other
RECURSIVE defineAll(_, _, _, _)
defineAll(eng, rules, prog, decl) ==
  IF rules = <<>> THEN eng
  ELSE defineAll(defineRule(eng, Head(rules), prog, decl).eng,
                 Tail(rules), prog, decl)

\* the loop over the worklist, run to its end
RECURSIVE drain(_, _)
drain(eng, c) ==
  IF c >= Len(eng.worklist) THEN eng
  ELSE drain(enactAll(eng, eng.entries[eng.worklist[c + 1]].rules), c + 1)

\* a whole solve of a program whose scope resolution succeeds
Solve(prog, rules) ==
  drain(defineAll(Engine(<<>>, <<>>, <<>>), rules, prog,
                  collectExpressions(prog, 1, EmptyContext, EmptyScope).decl), 0)

\* the set of values of every entry, by entry id
Outcome(store) == {<<store[e].id, Range(store[e].data)>> : e \in 1..Len(store)}

Orders(n) ==
  {f \in [1..n -> 1..n] : \A i, j \in 1..n : f[i] = f[j] => i = j}

Permute(rules, f) == [i \in 1..Len(rules) |-> rules[f[i]]]

\* C4: for rules with pure monotone callbacks, a solve whose define() calls
\* are made in any other order ends with the same set of values for every
\* entry.
C4_DefineOrderIrrelevant ==
  (pc = "done" /\ PureMonotone) =>
    \A f \in Orders(Len(script)) :
      Outcome(Solve(program, Permute(script, f)).entries) = Outcome(entries)

(***************************************************************************)
(* Scenario F: one dynamic rule whose only dependency is its own rhs       *)
(* entry and whose callback yields one missing value per evaluation.       *)
(***************************************************************************)
ScenarioF ==
  /\ Len(translated) = 1
  /\ translated[1].kind = "dynamic"
  /\ translated[1].dependencies = << translated[1].rhs >>
  /\ translated[1].dynamic.kind = "next"

\* C5: with a ceiling k, the drain ends and the entry holds exactly k values.
C5_CeilingReached ==
  (pc = "done" /\ ScenarioF /\ translated[1].dynamic.capped) =>
    Len(entries[translated[1].rhs].data) = translated[1].dynamic.ceiling

\* C6: without a ceiling the drain never ends: no analysis is ever returned.
C6_NoCeilingNeverReturns ==
  (ScenarioF /\ ~translated[1].dynamic.capped) => pc # "done"

(***************************************************************************)
(* Termination, growth of the data, scenario C.                            *)
(***************************************************************************)
\* C7: with finite value domains and monotone lhs evaluations the drain
\* terminates: once the loop over the worklist has started, the analysis is
\* eventually returned.
C7_DrainTerminates == (pc = "drain" /\ PureMonotone) ~> (pc = "done")

\* a drain of several steps over a dynamic rule has ended
C7_Witness ==
  /\ pc = "done"
  /\ PureMonotone
  /\ cursor >= 2
  /\ \E r \in 1..Len(translated) : translated[r].kind = "dynamic"

\* C8: no step of seeding or drain removes a value from an entry: every
\* entry is still there after the step and holds at least the values it held.
C8_DataOnlyGrows ==
  [][\A e \in 1..Len(entries) :
       /\ e <= Len(entries')
       /\ entries'[e].id = entries[e].id
       /\ Range(entries[e].data) \subseteq Range(entries'[e].data)]_vars

\* an entry has received values at different steps, one of them in the drain
C8_Witness ==
  /\ pc = "drain"
  /\ cursor >= 1
  /\ \E e \in 1..Len(entries) : Len(entries[e].data) >= 2

\* rules i and j are a constant rule into A and a reference rule from A to
\* another entry B, and there is no other rule
ScenarioC(i, j) ==
  /\ Len(translated) = 2
  /\ translated[i].kind = "constant"
  /\ translated[j].kind = "reference"
  /\ translated[j].dependencies = << translated[i].rhs >>
  /\ translated[j].rhs # translated[i].rhs

\* C9: a constant rule v into A and a reference rule from A to a distinct B,
\* declared in either order and with no other rule, leave B's data = [v].
C9_ReferencePropagates ==
  pc = "done" =>
    \A i, j \in 1..Len(translated) :
      ScenarioC(i, j) =>
        entries[translated[j].rhs].data = << translated[i].constant >>

\* the reference rule was declared first, so v reached B in the drain
C9_Witness ==
  /\ pc = "done"
  /\ ScenarioC(2, 1)
  /\ entries[translated[1].rhs].data = << translated[2].constant >>

(***************************************************************************)
(* Canonicalization of references.  The binder of a var node is read off   *)
(* the tree: the innermost enclosing fn, fun or let that binds its name    *)
(* (a let binds in its body only).                                         *)
(***************************************************************************)
HasParent(prog, l) == \E p \in Labels(prog) : Contains(prog[p].kids, l)

Parent(prog, l) == CHOOSE p \in Labels(prog) : Contains(prog[p].kids, l)

\* node a binds `name` in its child
BindsIn(prog, a, child, name) ==
  \/ prog[a].type = "fn" /\ prog[a].variable = name
  \/ prog[a].type = "fun" /\ name \in {prog[a].name, prog[a].variable}
  \/ prog[a].type = "let" /\ prog[a].variable = name /\ prog[a].kids[2] = child

RECURSIVE BinderAbove(_, _, _)
BinderAbove(prog, l, name) ==
  IF ~HasParent(prog, l) THEN 0
  ELSE IF BindsIn(prog, Parent(prog, l), l, name) THEN Parent(prog, l)
  ELSE BinderAbove(prog, Parent(prog, l), name)

BinderOf(prog, n) == BinderAbove(prog, n, prog[n].name)

\* reference ref points at binder b through the identifier that node n names
NamesBinding(ref, b, n) ==
  \/ /\ "boundVariable" \in DOMAIN ref
     /\ ref.boundVariable = b
     /\ program[b].variable = program[n].name
  \/ /\ "functionVariable" \in DOMAIN ref
     /\ ref.functionVariable = b
     /\ program[b].type = "fun"
     /\ program[b].name = program[n].name

\* C10: a variable reference to var node n and a boundVariable (or, for the
\* function name of a fun, functionVariable) reference to the binder of n
\* resolve to the identical entry.
C10_SameBindingSameEntry ==
  \A i, j \in 1..Len(translated) :
    ("variable" \in DOMAIN script[i].rhs
       /\ NamesBinding(script[j].rhs, BinderOf(program, script[i].rhs.variable),
                       script[i].rhs.variable))
      => translated[i].rhs = translated[j].rhs

\* both references were resolved, for a var node bound by an inner binder
\* that shadows an outer binder of the same name
C10_Witness ==
  /\ Len(translated) = 2
  /\ "variable" \in DOMAIN script[1].rhs
  /\ BinderOf(program, script[1].rhs.variable) > 1
  /\ program[1].variable = program[script[1].rhs.variable].name
  /\ NamesBinding(script[2].rhs, BinderOf(program, script[1].rhs.variable),
                  script[1].rhs.variable)
  /\ translated[1].rhs = translated[2].rhs

(***************************************************************************)
(* Identity of entries.                                                    *)
(***************************************************************************)
\* the category and the discriminator that a reference denotes
Canonical(ref) ==
  IF "variable" \in DOMAIN ref
  THEN <<"p", StringKey(program[ref.variable].name \o "#"
                        \o labelOfvariableDeclaration[ref.variable])>>
  ELSE IF "boundVariable" \in DOMAIN ref
  THEN <<"p", StringKey(program[ref.boundVariable].variable \o "#"
                        \o ToString(ref.boundVariable))>>
  ELSE IF "functionVariable" \in DOMAIN ref
  THEN <<"p", StringKey(program[ref.functionVariable].name \o "#"
                        \o ToString(ref.functionVariable))>>
  ELSE <<"C", NumberKey(ref.expression)>>

\* the category an entry was created under, read off its id
CategoryOf(entry) == Head(entry.id)

\* C11: the entry store holds at most one entry per (category,
\* discriminator), and two references resolve to the identical entry if and
\* only if they denote the same category and discriminator.
C11_OneEntryPerDiscriminator ==
  /\ \A a, b \in 1..Len(entries) :
       (CategoryOf(entries[a]) = CategoryOf(entries[b])
          /\ entries[a].key = entries[b].key) => a = b
  /\ \A i, j \in 1..Len(translated) :
       (translated[i].rhs = translated[j].rhs)
         <=> (Canonical(script[i].rhs) = Canonical(script[j].rhs))

\* two var nodes of the same name bound at different labels (shadowing) were
\* resolved to distinct entries
C11_Witness ==
  /\ Len(translated) = 2
  /\ "variable" \in DOMAIN script[1].rhs
  /\ "variable" \in DOMAIN script[2].rhs
  /\ script[1].rhs # script[2].rhs
  /\ program[script[1].rhs.variable].name = program[script[2].rhs.variable].name
  /\ translated[1].rhs # translated[2].rhs
  /\ Len(entries) = 2

(***************************************************************************)
(* Scope resolution and its errors.                                        *)
(***************************************************************************)
VarNodes(prog) == {n \in Labels(prog) : prog[n].type = "var"}

\* C12: when scope resolution has succeeded, each var node is mapped to the
\* label of the innermost enclosing binder that binds its name (fn: its
\* parameter; fun: its name and its parameter; let: its variable, in the
\* body only; an inner binder shadows an outer one).
C12_InnermostBinder ==
  pc \notin {"start", "failed"} =>
    \A n \in VarNodes(program) :
      /\ n \in DOMAIN labelOfvariableDeclaration
      /\ labelOfvariableDeclaration[n] = ToString(BinderOf(program, n))

\* some var node has no enclosing binder of its name
HasUnboundVariable(prog) == \E n \in VarNodes(prog) : BinderOf(prog, n) = 0

\* the solve has failed with this error before any define() call, and
\* nothing was seeded or returned
AbortedWith(kind) ==
  /\ pc = "failed"
  /\ error = kind
  /\ script = <<>>
  /\ entries = <<>>
  /\ analysis = <<>>

\* C13: if the name of a var node is bound by no enclosing fn, fun or let,
\* the solve fails with UnboundVariable before any define() call runs, and
\* no analysis is produced.
C13_UnboundVariableAborts ==
  (pc # "start" /\ HasUnboundVariable(program)) => AbortedWith("UnboundVariable")

\* the fun nodes whose function name equals the parameter name
CollidingFuns(prog) ==
  {n \in Labels(prog) : prog[n].type = "fun" /\ prog[n].name = prog[n].variable}

\* a colliding fun node is met before any unbound var node (labels are in
\* the order of the traversal)
CollisionMetFirst(prog) ==
  \E c \in CollidingFuns(prog) :
    \A n \in VarNodes(prog) : BinderOf(prog, n) = 0 => n > c

\* C14: if the AST holds a fun node whose function name equals its
\* parameter name, and no other scope error is met before it, the solve
\* aborts with NameCollision before any rule is seeded, and no analysis is
\* produced.
C14_NameCollisionAborts ==
  (pc # "start" /\ CollisionMetFirst(program)) => AbortedWith("NameCollision")

\* the collision was found at a fun node below the root
C14_Witness ==
  /\ AbortedWith("NameCollision")
  /\ program[1].type # "fun"
  /\ CollidingFuns(program) # {}

(***************************************************************************)
(* Unresolvable references.                                                *)
(***************************************************************************)
ReferenceShapes == {"variable", "boundVariable", "functionVariable", "expression"}

\* the reference names a var node the scope resolver has not seen, or has
\* none of the four shapes
Unresolvable(ref) ==
  \/ "variable" \in DOMAIN ref /\ ref.variable \notin VarNodes(program)
  \/ DOMAIN ref \cap ReferenceShapes = {}

\* the references of a rule: its rhs, its reference lhs, its dependencies
ReferencesOf(rule) ==
  {rule.rhs}
  \cup (IF "constant" \in DOMAIN rule.lhs THEN {}
        ELSE IF "dynamic" \in DOMAIN rule.lhs
        THEN Range(rule.lhs.dependencies)
        ELSE {rule.lhs})

\* C15: a define() call with a reference that cannot be resolved (as rhs, as
\* reference lhs or among the dependencies) raises UnknownReference; after
\* it no further define() call is executed, the drain does not run and no
\* analysis is returned.
C15_UnknownReferenceAborts ==
  [][/\ pc # "failed"
     /\ (script' # script
           /\ \E ref \in ReferencesOf(script'[Len(script')]) : Unresolvable(ref))
          => (pc' = "failed" /\ error' = "UnknownReference"
                /\ analysis' = <<>>)]_vars

\* a dynamic rule whose rhs and first dependency resolved and whose second
\* dependency did not was defined after a rule that was seeded
C15_Witness ==
  /\ pc = "failed"
  /\ error = "UnknownReference"
  /\ Len(script) = 2
  /\ Len(translated) = 1
  /\ "dynamic" \in DOMAIN script[2].lhs
  /\ Len(script[2].lhs.dependencies) = 2
  /\ ~Unresolvable(script[2].rhs)
  /\ ~Unresolvable(script[2].lhs.dependencies[1])
  /\ Unresolvable(script[2].lhs.dependencies[2])
  /\ analysis = <<>>

(***************************************************************************)
(* The helpers label() and type().                                         *)
(***************************************************************************)
\* C16: label(n) returns the node whose label is n for every n present in
\* the AST and fails with UnknownLabel for every other n; it never returns
\* a node of another label and never changes the state of the engine.
C16_LabelLookup ==
  [][(helper' # helper /\ helper'.call = "label") =>
       /\ IF helper'.label \in Labels(program)
          THEN helper'.node = helper'.label /\ pc' = pc /\ error' = "none"
          ELSE pc' = "failed" /\ error' = "UnknownLabel"
       /\ UNCHANGED <<expressionByLabel, expressions,
                      labelOfvariableDeclaration, entries, worklist,
                      translated, script, cursor, analysis, parser,
                      runner, provider>>]_vars

\* label() has returned a node below the root while entries exist
C16_Witness ==
  /\ pc = "script"
  /\ helper.call = "label"
  /\ helper.label > 1
  /\ helper.node = helper.label
  /\ entries # <<>>

\* C17: the sequence returned by one type() call is restartable: a second
\* loop over it yields the same nodes in the same order as the first.
C17_TypeRestartable ==
  (helper.call = "type" /\ Len(helper.runs) >= 2) =>
    helper.runs[2] = helper.runs[1]

\* C18: type(t1, ..., tn) yields exactly the nodes whose type is one of the
\* tags, each once, in ascending order of label over the whole result.
C18_TypeYieldsInDefinitionOrder ==
  (helper.call = "type" /\ Len(helper.runs) >= 1) =>
    LET run == helper.runs[1]
    IN  /\ Range(run) = {n \in Labels(program) :
                           program[n].type \in Range(helper.types)}
        /\ \A i, j \in 1..Len(run) : i < j => run[i] < run[j]

(***************************************************************************)
(* The analysis: order of the entries, order of the values.                *)
(***************************************************************************)
\* the entry listed at place i of the analysis
Listed(i) == entries[EntryIndex(entries, analysis[i].name)]

\* string a comes before string b in the order of their code units
RECURSIVE LexicographicallyBefore(_, _)
LexicographicallyBefore(a, b) ==
  IF b = "" THEN FALSE
  ELSE IF a = "" THEN TRUE
  ELSE IF Head(a) = Head(b) THEN LexicographicallyBefore(Tail(a), Tail(b))
  ELSE Weight(CodeUnitOrder, Head(a)) < Weight(CodeUnitOrder, Head(b))

\* C19: the analysis lists every entry, sorted by discriminator: numbers
\* before strings, numbers ascending, strings in ascending lexicographic
\* order, whatever the order in which the entries were created.
C19_AnalysisSorted ==
  pc = "done" =>
    /\ Len(analysis) = Len(entries)
    /\ \A i, j \in 1..Len(analysis) :
         i < j =>
           LET a == Listed(i).key
               b == Listed(j).key
           IN  IF a.isNumber /\ b.isNumber THEN a.number < b.number
               ELSE IF ~a.isNumber /\ ~b.isNumber
               THEN LexicographicallyBefore(a.string, b.string)
               ELSE a.isNumber

IsPrefix(s, t) == Len(s) <= Len(t) /\ SubSeq(t, 1, Len(s)) = s

NoDuplicates(s) == \A i, j \in 1..Len(s) : s[i] = s[j] => i = j

\* C20: the values of an entry are never duplicated and stay in the order
\* of their first insertion: a step of seeding or drain only appends new
\* values behind the ones present (yielding a value again changes nothing),
\* and the analysis lists the values of each entry in that order.
C20_ValuesInInsertionOrder ==
  /\ [][\A e \in 1..Len(entries) :
          IsPrefix(entries[e].data, entries'[e].data)]_vars
  /\ [](\A e \in 1..Len(entries) : NoDuplicates(entries[e].data))
  /\ [](pc = "done" =>
          \A i \in 1..Len(analysis) : analysis[i].values = Listed(i).data)

\* an entry whose values were inserted out of numeric order, and yielded
\* again in the drain, is listed in the order of insertion
C20_Witness ==
  /\ pc = "done"
  /\ cursor >= 1
  /\ \E i \in 1..Len(analysis) : analysis[i].values = <<2, 1, 3>>

(***************************************************************************)
(* The keys of the analysis.                                               *)
(***************************************************************************)
\* category(discriminator), as the analysis writes it
KeyName(canonical) ==
  canonical[1] \o "(" \o KeyText(canonical[2]) \o ")"

\* the references resolved by the define() calls of the script
ResolvedReferences == UNION {ReferencesOf(script[i]) : i \in 1..Len(script)}

\* C21: the analysis has exactly one key, written category(discriminator),
\* for each entry resolved from a reference of some define() call (rhs,
\* reference lhs or dependency), also when its data stayed empty, and no
\* other key; without define() calls it is empty.
C21_AnalysisKeys ==
  pc = "done" =>
    /\ {analysis[i].name : i \in 1..Len(analysis)}
         = {KeyName(Canonical(ref)) : ref \in ResolvedReferences}
    /\ \A i, j \in 1..Len(analysis) :
         analysis[i].name = analysis[j].name => i = j

\* the analysis lists an entry that only a reference lhs or a dependency
\* created and that never received a value, next to one with values
C21_Witness ==
  /\ pc = "done"
  /\ \E i, j \in 1..Len(analysis) :
       analysis[i].values = <<>> /\ analysis[j].values # <<>>

(***************************************************************************)
(* Determinism: the outcome as a function of the AST and the rule          *)
(* sequence.                                                               *)
(***************************************************************************)
\* the define() calls of a script up to the first that throws: [error, eng]
RECURSIVE runScript(_, _, _, _)
runScript(eng, rules, prog, decl) ==
  IF rules = <<>> THEN Defined(eng)
  ELSE Only({ IF d.error # "none" THEN d
              ELSE runScript(d.eng, Tail(rules), prog, decl)
              : d \in {defineRule(eng, Head(rules), prog, decl)} })

\* the analysis as a mapping: the keys with their value lists
Mapping(store) == {<<store[e].id, store[e].data>> : e \in 1..Len(store)}

\* the outcome of a solve of prog with the define() calls rules
RunOutcome(prog, rules) ==
  LET acc == collectExpressions(prog, 1, EmptyContext, EmptyScope)
  IN  IF acc.error # "none" THEN [error |-> acc.error, analysis |-> {}]
      ELSE LET d == runScript(Engine(<<>>, <<>>, <<>>), rules, prog, acc.decl)
           IN  IF d.error # "none" THEN [error |-> d.error, analysis |-> {}]
               ELSE [error |-> "none",
                     analysis |-> Mapping(drain(d.eng, 0).entries)]

ConstantRulesDefined == {r \in 1..Len(translated) : translated[r].kind = "constant"}

\* the data of entry e before a step in which it may have been created
DataBefore(e) == IF e <= Len(entries) THEN entries[e].data ELSE <<>>

\* C23: a constant rule is enacted exactly once, at its define() call, where
\* it inserts its value into the rhs entry if missing; it is a member of no
\* entry's rules set, so that no drain step re-enacts it.
C23_ConstantEnactedOnce ==
  /\ [](\A r \in ConstantRulesDefined :
          /\ \A e \in 1..Len(entries) : ~Contains(entries[e].rules, r)
          /\ Contains(entries[translated[r].rhs].data, translated[r].constant))
  /\ [][(Len(translated') = Len(translated) + 1
          /\ translated'[Len(translated')].kind = "constant")
         => LET rule == translated'[Len(translated')]
            IN  entries'[rule.rhs].data
                  = SetAdd(DataBefore(rule.rhs), rule.constant)]_vars

\* the rhs entry of a constant rule was dequeued in the drain, and it holds
\* more than the constant
C23_Witness ==
  /\ pc = "done"
  /\ \E r \in ConstantRulesDefined :
       /\ translated[r].rhs \in Dequeued(cursor)
       /\ Len(entries[translated[r].rhs].data) >= 2
       /\ entries[translated[r].rhs].rules # <<>>

(***************************************************************************)
(* Reverse links from the dependencies to the rules.                       *)
(***************************************************************************)
\* the values a dynamic rule must add: the callback applied to the data of
\* its dependencies, first to last
YieldedInOrder(store, rule) ==
  <<1>> \o Successors(Concat([i \in 1..Len(rule.dependencies) |->
                                 store[rule.dependencies[i]].data]),
                      rule.dynamic)

\* the entries as they are when the new rule r' is enacted: the entries of
\* before, and those that its references have created, still empty
DataAtEnactment(e) == IF e <= Len(entries) THEN entries[e].data ELSE <<>>

Enacted(r) == enactRule(Engine(entries, worklist, translated), r)

\* the values that the enactment of r inserts
Inserted(r) ==
  Range(Enacted(r).entries[translated[r].rhs].data)
    \ Range(entries[translated[r].rhs].data)

\* C25: enact(rule) changes only rule.rhs: it inserts exactly the yielded
\* values missing from rhs.data, and adds rhs to the worklist if and only
\* if a value was inserted; the data of every other entry, every rules set
\* and, when nothing was inserted, the worklist stay as they are.
C25_EnactFrame ==
  \A r \in 1..Len(translated) :
    LET rhs == translated[r].rhs
        after == Enacted(r)
    IN  /\ Range(after.entries[rhs].data)
             = Range(entries[rhs].data) \cup Range(Lhs(entries, translated[r]))
        /\ IsPrefix(entries[rhs].data, after.entries[rhs].data)
        /\ Len(after.entries) = Len(entries)
        /\ \A e \in 1..Len(entries) :
             /\ e # rhs => after.entries[e].data = entries[e].data
             /\ after.entries[e].rules = entries[e].rules
        /\ after.translated = translated
        /\ after.worklist = IF Inserted(r) # {} THEN SetAdd(worklist, rhs)
                                                ELSE worklist

\* in one state, a rule whose enactment inserts a value into an entry that
\* is not yet in the worklist, and a rule whose enactment inserts nothing
C25_Witness ==
  /\ pc = "drain"
  /\ \E r, q \in 1..Len(translated) :
       /\ Inserted(r) # {}
       /\ ~Contains(worklist, translated[r].rhs)
       /\ Inserted(q) = {}

(***************************************************************************)
(* Order of the drain.                                                     *)
(***************************************************************************)
\* C26: entries are dequeued in the order in which they first became
\* pending: the worklist keeps that order (it is only ever extended at its
\* end), each drain step takes the entry next in it, and an entry added
\* while the drain runs is dequeued in the same drain, after the entries
\* added before it.
C26_FifoDrain ==
  /\ [][/\ IsPrefix(worklist, worklist')
        /\ (pc = "drain" /\ pc' = "drain" /\ cursor' # cursor)
             => /\ cursor' = cursor + 1
                /\ cursor' <= Len(worklist)
                /\ \A e \in 1..Len(entries) :
                     entries'[e].data # entries[e].data
                       => \E i \in 1..Len(entries[worklist[cursor']].rules) :
                            translated[entries[worklist[cursor']].rules[i]].rhs
                              = e]_vars
  /\ [](pc = "done" => cursor = Len(worklist))

\* scenario C with the reference rule first: A was pending when the drain
\* started, B became pending in the drain and was dequeued after A
C26_Witness ==
  /\ pc = "done"
  /\ ScenarioC(2, 1)
  /\ worklist = << translated[2].rhs, translated[1].rhs >>
  /\ cursor = 2

(***************************************************************************)
(* What a callback sees of its dependencies.                               *)
(***************************************************************************)
\* C27: the callback of a dynamic rule works on snapshots of its
\* dependencies' data taken when the evaluation starts: the enactment at
\* define() adds to the rhs entry the values the callback yields for the
\* data as it was before, also when the rhs entry is a dependency of the
\* rule and the callback yields lazily.
C27_CallbackSeesSnapshot ==
  [][(Len(translated') = Len(translated) + 1
        /\ translated'[Len(translated')].kind = "dynamic")
     => LET rule == translated'[Len(translated')]
            before == [e \in 1..Len(entries') |-> [data |-> DataAtEnactment(e)]]
        IN  entries'[rule.rhs].data
              = SetAddAll(DataAtEnactment(rule.rhs),
                          YieldedInOrder(before, rule))]_vars

(***************************************************************************)
(* The parser worker: labelling the parsed expression.                     *)
(***************************************************************************)
\* An expression as the grammar builds it: group and simple give every node
\* label 0.  kids are the sub-expressions in the order postProcess visits
\* them: left, right / condition, thenBody, elseBody / body /
\* callable, argument / value, body.
Parsed(type, kids) == [type |-> type, label |-> 0, kids |-> kids]

RECURSIVE TreesOfSize(_)
TreesOfSize(n) ==
  IF n = 1 THEN {Parsed("var", <<>>)}
  ELSE {Parsed("fn", <<body>>) : body \in TreesOfSize(n - 1)}
       \cup UNION {{Parsed("app", <<callable, argument>>) :
                      callable \in TreesOfSize(i),
                      argument \in TreesOfSize(n - 1 - i)} : i \in 1..(n - 2)}
       \cup UNION {UNION {{Parsed("if", <<condition, thenBody, elseBody>>) :
                             condition \in TreesOfSize(i),
                             thenBody \in TreesOfSize(j),
                             elseBody \in TreesOfSize(n - 1 - i - j)}
                          : j \in 1..(n - 2 - i)} : i \in 1..(n - 3)}

\* parser.expression.trim(P.optWhitespace).parse(expression)
ParserResults ==
  {[status |-> FALSE]}
  \cup {[status |-> TRUE, value |-> tree] :
          tree \in UNION {TreesOfSize(n) : n \in 1..MaxNodes}}

NextLabelZeroBased(inlayHints) == Len(inlayHints)

\* const label = inlayHints.length + 1
NextLabel(inlayHints) == Len(inlayHints) + 1

\* postProcess: the hint is pushed before the sub-expressions are visited,
\* and the sub-expressions are visited in the order of the object literal
RECURSIVE postProcess(_, _), postProcessKids(_, _, _)
postProcess(expression, inlayHints) ==
  LET label == NextLabel(inlayHints)
      pushed == Append(inlayHints, [text |-> ToString(label), kind |-> 0])
      kids == postProcessKids(expression.kids, <<>>, pushed)
  IN  [expression |-> [expression EXCEPT !.label = label,
                                         !.kids = kids.expressions],
       inlayHints |-> kids.inlayHints]

postProcessKids(kids, done, inlayHints) ==
  IF kids = <<>> THEN [expressions |-> done, inlayHints |-> inlayHints]
  ELSE LET first == postProcess(Head(kids), inlayHints)
       IN  postProcessKids(Tail(kids), Append(done, first.expression),
                           first.inlayHints)

\* the message the parser worker posts
ParserOutput(parserResult) ==
  IF parserResult.status
  THEN LET processed == postProcess(parserResult.value, <<>>)
       IN  [succeeded |-> TRUE,
            expression |-> processed.expression,
            inlayHints |-> processed.inlayHints]
  ELSE [succeeded |-> FALSE]

InitParse ==
  /\ program = FnProgram
  /\ expressionByLabel = [l \in {} |-> 0]
  /\ expressions = [t \in {} |-> <<>>]
  /\ labelOfvariableDeclaration = [n \in {} |-> ""]
  /\ entries = <<>>
  /\ worklist = <<>>
  /\ translated = <<>>
  /\ script = <<>>
  /\ cursor = 0
  /\ pc = "start"
  /\ error = "none"
  /\ helper = NoHelper
  /\ analysis = <<>>
  /\ parser \in {[stage |-> "parsed", parserResult |-> r] : r \in ParserResults}
  /\ runner = NoRun
  /\ provider = NoProvider

Parse ==
  /\ parser.stage = "parsed"
  /\ parser' = [stage |-> "posted",
                parserResult |-> parser.parserResult,
                output |-> ParserOutput(parser.parserResult)]
  /\ UNCHANGED <<program, expressionByLabel, expressions,
                 labelOfvariableDeclaration, entries, worklist, translated,
                 script, cursor, pc, error, helper, analysis,
                 runner, provider>>

NextParse == Parse

SpecParse == InitParse /\ [][NextParse]_vars

(***************************************************************************)
(* Labels of a parsed expression.                                          *)
(***************************************************************************)
RECURSIVE PreOrderLabels(_), PreOrderLabelsOfAll(_)
PreOrderLabels(expression) ==
  <<expression.label>> \o PreOrderLabelsOfAll(expression.kids)

PreOrderLabelsOfAll(kids) ==
  IF kids = <<>> THEN <<>>
  ELSE PreOrderLabels(Head(kids)) \o PreOrderLabelsOfAll(Tail(kids))

RECURSIVE Unlabelled(_)
Unlabelled(expression) ==
  [expression EXCEPT !.label = 0,
                     !.kids = [i \in 1..Len(expression.kids) |->
                                 Unlabelled(expression.kids[i])]]

\* C28: after a successful parse of an expression with n nodes, the labels
\* read in pre-order (a node before its children, children left to right)
\* are 1, 2, ..., n: the root has label 1, every label of 1..n is used
\* once, no node keeps label 0, the expression is otherwise the parsed one
\* and there are n inlay hints, the i-th showing label i.
C28_PreOrderLabels ==
  (parser.stage = "posted" /\ parser.parserResult.status)
  => LET out == parser.output
         n == Len(PreOrderLabels(parser.parserResult.value))
     IN  /\ out.succeeded
         /\ PreOrderLabels(out.expression) = [i \in 1..n |-> i]
         /\ out.expression.label = 1
         /\ \A i \in 1..n : PreOrderLabels(out.expression)[i] # 0
         /\ Unlabelled(out.expression) = parser.parserResult.value
         /\ Len(out.inlayHints) = n
         /\ \A i \in 1..n : out.inlayHints[i].text = ToString(i)

\* (if (fn x => x) then (fn y => y) else z) parsed: a node with three
\* children, of which the first two have a child themselves, so that the
\* second child is labelled 4 and the third 6
C28_Witness ==
  /\ parser.stage = "posted"
  /\ parser.parserResult.status
  /\ parser.parserResult.value.type = "if"
  /\ parser.output.expression.kids[1].type = "fn"
  /\ parser.output.expression.kids[2].type = "fn"
  /\ parser.output.expression.kids[2].label = 4
  /\ parser.output.expression.kids[3].label = 6
  /\ Len(parser.output.inlayHints) = 6

(***************************************************************************)
(* Members of the worklist.                                                *)
(***************************************************************************)
\* C29: after every define() call and every drain step, an entry is a
\* member of the worklist if and only if its data holds a value (data never
\* loses a value, so that is: a value was inserted at some time); the
\* worklist holds no entry twice; and the entry a drain step processes had
\* data before the step, so that an entry that exists only as lhs or
\* dependency and never received a value is never processed.
C29_WorklistMembership ==
  /\ [](\A e \in 1..Len(entries) :
          Contains(worklist, e) <=> entries[e].data # <<>>)
  /\ [](NoDuplicates(worklist) /\ Range(worklist) \subseteq 1..Len(entries))
  /\ [][cursor' # cursor =>
          /\ worklist[cursor'] = worklist'[cursor']
          /\ entries[worklist[cursor']].data # <<>>]_vars
  /\ [](\A e \in 1..Len(entries) :
          entries[e].data = <<>> => e \notin Dequeued(cursor))

\* the drain has ended after processing an entry, and an entry that is the
\* lhs or a dependency of a rule never received a value and is not a member
C29_Witness ==
  /\ pc = "done"
  /\ cursor >= 1
  /\ \E e \in 1..Len(entries) :
       /\ entries[e].rules # <<>>
       /\ entries[e].data = <<>>
       /\ ~Contains(worklist, e)
  /\ \E e \in 1..Len(entries) :
       /\ Len(entries[e].data) >= 2
       /\ Contains(worklist, e)

(***************************************************************************)
(* Every value is justified by a rule.                                     *)
(***************************************************************************)
\* the pairs <<entry, value>> that the rules rs yield when they are enacted
\* one after the other, each against the entries as the ones before left them
RECURSIVE YieldedBy(_, _)
YieldedBy(eng, rs) ==
  IF rs = <<>> THEN {}
  ELSE LET rule == eng.translated[Head(rs)]
       IN  {<<rule.rhs, v>> : v \in Range(Lhs(eng.entries, rule))}
           \cup YieldedBy(enactRule(eng, Head(rs)), Tail(rs))

\* the rules a step evaluates: the new rule in a define() call, the rules of
\* the processed entry in a drain step
EvaluatedIn(newTranslated, newCursor) ==
  IF Len(newTranslated) = Len(translated) + 1 THEN << Len(newTranslated) >>
  ELSE IF newCursor # cursor THEN entries[worklist[newCursor]].rules
  ELSE <<>>

\* the entries from which T is reached through reference rules (T included)
RECURSIVE ConnectedTo(_)
ConnectedTo(S) ==
  LET more == S \cup {translated[r].dependencies[1] :
                        r \in {q \in 1..Len(translated) :
                                 /\ translated[q].kind = "reference"
                                 /\ translated[q].rhs \in S}}
  IN  IF more = S THEN S ELSE ConnectedTo(more)

ConstantsInto(T) ==
  {translated[r].constant :
     r \in {q \in ConstantRulesDefined : translated[q].rhs \in ConnectedTo({T})}}

OnlyConstantAndReference ==
  \A r \in 1..Len(translated) : translated[r].kind \in {"constant", "reference"}

\* C30: no entry holds a value that the rules do not justify.  A step adds
\* to an entry only values that an evaluation of a rule with that entry as
\* rhs yielded in the step; with constant and reference rules only, every
\* value of an entry T is the constant of a constant rule whose rhs is T or
\* an entry from which reference rules lead to T; and with constant,
\* reference and pure monotone rules the final values of every entry are
\* among its values in the least fixpoint.
C30_ValuesJustified ==
  /\ [][\A e \in 1..Len(entries') :
          \A v \in Range(entries'[e].data) \ Range(DataAtEnactment(e)) :
            <<e, v>> \in YieldedBy(
                           Engine([x \in 1..Len(entries') |->
                                     [entries'[x] EXCEPT
                                        !.data = DataAtEnactment(x)]],
                                  worklist, translated'),
                           EvaluatedIn(translated', cursor'))]_vars
  /\ [](OnlyConstantAndReference =>
          \A T \in 1..Len(entries) : ValuesOf(T) \subseteq ConstantsInto(T))
  /\ []((pc = "done" /\ PureMonotone) =>
          \A e \in 1..Len(entries) :
            ValuesOf(e) \subseteq Range(LeastFixpoint[e].data))

\* a constant passed on through a reference rule: the drain has ended, T
\* holds a value, no constant rule has T as rhs, and a reference rule leads
\* to T from the entry the constant rule feeds
C30_Witness ==
  /\ pc = "done"
  /\ OnlyConstantAndReference
  /\ \E T \in 1..Len(entries) :
       /\ entries[T].data # <<>>
       /\ \A r \in ConstantRulesDefined : translated[r].rhs # T
       /\ \E r \in 1..Len(translated) :
            /\ translated[r].kind = "reference"
            /\ translated[r].rhs = T
            /\ translated[r].dependencies[1] # T
            /\ entries[translated[r].dependencies[1]].data = entries[T].data

(***************************************************************************)
(* The runner worker: evaluation of a program.                             *)
(***************************************************************************)
MAX_RECURSION == 100

\* a numeric constant node
Num(value) ==
  [type |-> "n", name |-> "", variable |-> "", kids |-> <<>>, value |-> value]

\* ((fun f x => (f x)) v): f applies itself for ever
SelfApplyProgram(v) ==
  << Node("app", "", "", <<2, 6>>), Node("fun", "f", "x", <<3>>),
     Node("app", "", "", <<4, 5>>), Node("var", "f", "", <<>>),
     Node("var", "x", "", <<>>), Num(v) >>

\* ((fn x => (x x)) (fn y => (y y))): endless application without a fun
OmegaProgram ==
  << Node("app", "", "", <<2, 6>>), Node("fn", "", "x", <<3>>),
     Node("app", "", "", <<4, 5>>), Node("var", "x", "", <<>>),
     Node("var", "x", "", <<>>), Node("fn", "", "y", <<7>>),
     Node("app", "", "", <<8, 9>>), Node("var", "y", "", <<>>),
     Node("var", "y", "", <<>>) >>

\* ((fun f x => (if (x < 1) then 0 else (f (x - 1)))) v)
CountdownProgram(v) ==
  << Node("app", "", "", <<2, 13>>), Node("fun", "f", "x", <<3>>),
     Node("if", "", "", <<4, 7, 8>>), Node("<", "", "", <<5, 6>>),
     Node("var", "x", "", <<>>), Num(1), Num(0),
     Node("app", "", "", <<9, 10>>), Node("var", "f", "", <<>>),
     Node("-", "", "", <<11, 12>>), Node("var", "x", "", <<>>), Num(1),
     Num(v) >>

\* (((fn x => x) v) + ((fn y => (y * y)) 2)): two applications side by side
TwoApplicationsProgram(v) ==
  << Node("+", "", "", <<2, 6>>),
     Node("app", "", "", <<3, 5>>), Node("fn", "", "x", <<4>>),
     Node("var", "x", "", <<>>), Num(v),
     Node("app", "", "", <<7, 11>>), Node("fn", "", "y", <<8>>),
     Node("*", "", "", <<9, 10>>), Node("var", "y", "", <<>>),
     Node("var", "y", "", <<>>), Num(2) >>

\* (let x = v in (if ((x == 1) || (x >= 2)) then (x != 0) else (true && x)))
LetIfProgram(v) ==
  << Node("let", "", "x", <<2, 3>>), Num(v),
     Node("if", "", "", <<4, 11, 14>>),
     Node("||", "", "", <<5, 8>>),
     Node("==", "", "", <<6, 7>>), Node("var", "x", "", <<>>), Num(1),
     Node(">=", "", "", <<9, 10>>), Node("var", "x", "", <<>>), Num(2),
     Node("!=", "", "", <<12, 13>>), Node("var", "x", "", <<>>), Num(0),
     Node("&&", "", "", <<15, 16>>), Node("true", "", "", <<>>),
     Node("var", "x", "", <<>>) >>

\* (v (fn x => x)): a number in the place of the callable
NumberAppliedProgram(v) ==
  << Node("app", "", "", <<2, 3>>), Num(v), Node("fn", "", "x", <<4>>),
     Node("var", "x", "", <<>>) >>

\* (y (false)) and (constructor (false)): names that nothing binds
UnboundAppliedProgram(name) ==
  << Node("app", "", "", <<2, 3>>), Node("var", name, "", <<>>),
     Node("false", "", "", <<>>) >>

RunnerPrograms ==
  {OmegaProgram}
  \cup {SelfApplyProgram(v) : v \in 0..MaxVal}
  \cup {CountdownProgram(v) : v \in 0..MaxVal}
  \cup {TwoApplicationsProgram(v) : v \in 0..MaxVal}
  \cup {LetIfProgram(v) : v \in 0..MaxVal}
  \cup {NumberAppliedProgram(v) : v \in 0..MaxVal}
  \cup {UnboundAppliedProgram(name) : name \in {"y", "constructor"}}

\* Value = number | boolean | Expression.  A boolean has n = 1 for true; an
\* Expression is the node with label n.  "inherited" is what a lookup of a
\* name in ObjectPrototypeNames finds on the context object: a member of
\* Object.prototype, which is none of the three.
RunValue(kind, n) == [kind |-> kind, n |-> n]

BooleanValue(b) == RunValue("boolean", IF b THEN 1 ELSE 0)

\* formatValue
formatValue(value) ==
  IF value.kind = "boolean" THEN (IF value.n = 1 THEN "true" ELSE "false")
  ELSE IF value.kind = "number" THEN ToString(value.n)
  ELSE IF value.kind = "reference" THEN "reference to #" \o ToString(value.n)
  ELSE "reference to #undefined"

\* Math.trunc(a / b) for a divisor other than 0
Trunc(a, b) ==
  LET abs(x) == IF x < 0 THEN 0 - x ELSE x
      q == abs(a) \div abs(b)
  IN  IF (a < 0) = (b < 0) THEN q ELSE 0 - q

\* the operators on two numbers.  A division by 0 yields a number that is
\* not finite; the programs of RunnerPrograms do not divide.
Operate(type, a, b) ==
  CASE type = "+" -> RunValue("number", a + b)
    [] type = "-" -> RunValue("number", a - b)
    [] type = "*" -> RunValue("number", a * b)
    [] type = "/" /\ b # 0 -> RunValue("number", Trunc(a, b))
    [] type = "<" -> BooleanValue(a < b)
    [] type = ">" -> BooleanValue(a > b)
    [] type = "<=" -> BooleanValue(a <= b)
    [] type = ">=" -> BooleanValue(a >= b)

NumberOperators == {"+", "-", "*", "/", "<", ">", "<=", ">="}

EmptyRunContext == [n \in {} |-> RunValue("number", 0)]

\* { ...context, [name]: value }
Bind(context, name, value) ==
  [n \in (DOMAIN context) \cup {name} |->
     IF n = name THEN value ELSE context[n]]

\* one activation of evaluate(expression, context, recursion); values are
\* the results of the evaluations it has made so far, in the order made
Frame(expression, context, recursion) ==
  [expression |-> expression, context |-> context, recursion |-> recursion,
   values |-> <<>>]

Evaluate(expression, context, recursion) ==
  [do |-> "call", frame |-> Frame(expression, context, recursion)]

Give(value) == [do |-> "return", value |-> value]

Raise(thrown) == [do |-> "throw", error |-> thrown]

\* the check passed whatever the counter is
ExceedsNever(recursion) == FALSE

\* recursion > MAX_RECURSION
Exceeds(recursion) == recursion > MAX_RECURSION

\* the body evaluated with the counter of the application
DeeperNot(recursion) == recursion

\* recursion + 1
Deeper(recursion) == recursion + 1

\* What an activation of evaluate does next, given the results of the
\* evaluations it has made: a further evaluation, its return, or a throw.
evaluate(prog, frame) ==
  LET expression == prog[frame.expression]
      type == expression.type
      kids == expression.kids
      context == frame.context
      recursion == frame.recursion
      values == frame.values
      made == Len(values)
      sub(i) == Evaluate(kids[i], context, recursion)
  IN  IF made = 0 /\ Exceeds(recursion) THEN Raise("EvalError")
      ELSE IF type = "n" THEN Give(RunValue("number", expression.value))
      ELSE IF type = "true" THEN Give(BooleanValue(TRUE))
      ELSE IF type = "false" THEN Give(BooleanValue(FALSE))
      ELSE IF type = "var"
      THEN IF expression.name \in DOMAIN context
           THEN Give(context[expression.name])
           ELSE IF expression.name \in ObjectPrototypeNames
           THEN Give(RunValue("inherited", 0))
           ELSE Raise("TypeError")
      ELSE IF type \in NumberOperators
      THEN IF made = 0 THEN sub(1)
           ELSE IF values[made].kind # "number" THEN Raise("TypeError")
           ELSE IF made = 1 THEN sub(2)
           ELSE Give(Operate(type, values[1].n, values[2].n))
      ELSE IF type \in {"==", "!="}
      THEN IF made < 2 THEN sub(made + 1)
           ELSE Give(BooleanValue((values[1] = values[2]) = (type = "==")))
      ELSE IF type \in {"||", "&&"}
      THEN IF made = 0 THEN sub(1)
           ELSE IF values[made].kind # "boolean" THEN Raise("TypeError")
           ELSE IF made = 1 /\ (values[1].n = 1) # (type = "||") THEN sub(2)
           ELSE Give(values[made])
      ELSE IF type = "if"
      THEN IF made = 0 THEN sub(1)
           ELSE IF made = 1
           THEN IF values[1].kind # "boolean" THEN Raise("TypeError")
                ELSE IF values[1].n = 1 THEN sub(2) ELSE sub(3)
           ELSE Give(values[2])
      ELSE IF type \in {"fn", "fun"}
      THEN Give(RunValue("reference", frame.expression))
      ELSE IF type = "app"
      THEN IF made = 0 THEN sub(2)
           ELSE IF made = 1 THEN sub(1)
           ELSE IF made = 2
           THEN LET argument == values[1]
                    callable == values[2]
                IN  IF callable.kind # "reference" THEN Raise("TypeError")
                    ELSE IF prog[callable.n].type = "fn"
                    THEN Evaluate(prog[callable.n].kids[1],
                                  Bind(context, prog[callable.n].variable,
                                       argument),
                                  Deeper(recursion))
                    ELSE Evaluate(prog[callable.n].kids[1],
                                  Bind(Bind(context, prog[callable.n].name,
                                            callable),
                                       prog[callable.n].variable, argument),
                                  Deeper(recursion))
           ELSE Give(values[3])
      ELSE \* let
           IF made = 0 THEN sub(1)
           ELSE IF made = 1
           THEN Evaluate(kids[2], Bind(context, expression.variable, values[1]),
                         recursion)
           ELSE Give(values[2])

\* the activation that is running, and what it does next
Running == runner.stack[Len(runner.stack)]

Step == evaluate(program, Running)

\* evaluate(expression, { }, 0) has been called
InitRun ==
  /\ program \in RunnerPrograms
  /\ expressionByLabel = [l \in {} |-> 0]
  /\ expressions = [t \in {} |-> <<>>]
  /\ labelOfvariableDeclaration = [n \in {} |-> ""]
  /\ entries = <<>>
  /\ worklist = <<>>
  /\ translated = <<>>
  /\ script = <<>>
  /\ cursor = 0
  /\ pc = "start"
  /\ error = "none"
  /\ helper = NoHelper
  /\ analysis = <<>>
  /\ parser = NoParse
  /\ runner = [stage |-> "running", stack |-> << Frame(1, EmptyRunContext, 0) >>,
               value |-> "", error |-> "none"]
  /\ provider = NoProvider

RunnerFrame ==
  UNCHANGED <<program, expressionByLabel, expressions,
              labelOfvariableDeclaration, entries, worklist, translated,
              script, cursor, pc, error, helper, analysis, parser, provider>>

\* the running activation calls evaluate
EvaluateCalls ==
  /\ runner.stage = "running"
  /\ Step.do = "call"
  /\ runner' = [runner EXCEPT !.stack = Append(@, Step.frame)]
  /\ RunnerFrame

\* the running activation returns to the one that called it
EvaluateReturns ==
  /\ runner.stage = "running"
  /\ Step.do = "return"
  /\ Len(runner.stack) > 1
  /\ runner' = [runner EXCEPT
                  !.stack = [SubSeq(@, 1, Len(@) - 1) EXCEPT
                               ![Len(@) - 1].values = Append(@, Step.value)]]
  /\ RunnerFrame

\* the outermost activation returns: { value: formatValue(...) }
RunnerReturns ==
  /\ runner.stage = "running"
  /\ Step.do = "return"
  /\ Len(runner.stack) = 1
  /\ runner' = [runner EXCEPT !.stage = "returned", !.stack = <<>>,
                              !.value = formatValue(Step.value)]
  /\ RunnerFrame

\* a throw: nothing in the runner catches it
EvaluateThrows ==
  /\ runner.stage = "running"
  /\ Step.do = "throw"
  /\ runner' = [runner EXCEPT !.stage = "failed", !.error = Step.error]
  /\ RunnerFrame

NextRun == EvaluateCalls \/ EvaluateReturns \/ RunnerReturns \/ EvaluateThrows

SpecRun == InitRun /\ [][NextRun]_vars

\* the worker runs to completion: no step of the evaluation waits
LiveRun == InitRun /\ [][NextRun]_vars /\ WF_vars(NextRun)

(***************************************************************************)
(* Termination of the runner and its recursion counter.                    *)
(***************************************************************************)
\* the expression is the body of a fn or fun node
IsBody(l) ==
  \E f \in 1..Len(program) :
    program[f].type \in {"fn", "fun"} /\ program[f].kids = <<l>>

Finished == runner.stage \in {"returned", "failed"}

\* C31: the evaluation of a program ends, with a value or with an error.
\* The outermost evaluation has counter 0; an evaluation of the body of a fn
\* or fun that is applied has the counter of the application plus one, every
\* other evaluation has the counter of the evaluation that makes it, and no
\* evaluation changes its counter; an evaluation whose counter exceeds
\* MAX_RECURSION does nothing but raise EvalError, at once, and EvalError is
\* raised by nothing else; so that endless self-application ends in it.
C31_EvaluationTerminates ==
  /\ <>Finished
  /\ [](runner.stage = "running" =>
          /\ runner.stack[1].recursion = 0
          /\ \A i \in 1..Len(runner.stack) :
               runner.stack[i].recursion <= MAX_RECURSION + 1
          /\ \A i \in 1..(Len(runner.stack) - 1) :
               runner.stack[i].recursion <= MAX_RECURSION)
  /\ [][runner.stage = "running" =>
          /\ \A i \in 1..Len(runner.stack) :
               i <= Len(runner'.stack) =>
                 runner'.stack[i].recursion = runner.stack[i].recursion
          /\ Len(runner'.stack) > Len(runner.stack) =>
               LET made == runner'.stack[Len(runner'.stack)]
               IN  /\ Len(runner'.stack) = Len(runner.stack) + 1
                   /\ made.recursion
                        = IF IsBody(made.expression)
                          THEN Running.recursion + 1
                          ELSE Running.recursion
          /\ Running.recursion > MAX_RECURSION =>
               runner'.stage = "failed" /\ runner'.error = "EvalError"]_vars
  /\ [](runner.stage = "returned" => runner.value # "" /\ runner.error = "none")
  /\ [](runner.stage = "failed" =>
          /\ runner.error \in {"EvalError", "TypeError"}
          /\ runner.error = "EvalError"
               <=> Running.recursion = MAX_RECURSION + 1)
  /\ [](program \in {SelfApplyProgram(v) : v \in 0..MaxVal} \cup {OmegaProgram}
          => (Finished => runner.error = "EvalError"))

\* ((fun f x => (f x)) 1) has ended in EvalError: the body of f was entered
\* MAX_RECURSION + 1 times, each evaluation from within the one before
C31_Witness ==
  /\ program = SelfApplyProgram(1)
  /\ runner.stage = "failed"
  /\ runner.error = "EvalError"
  /\ Running.recursion = MAX_RECURSION + 1
  /\ Running.expression = 3
  /\ Cardinality({i \in 1..Len(runner.stack) :
                    runner.stack[i].expression = 3}) = MAX_RECURSION + 1

\* a recursion that ends by itself returns its value:
\* ((fun f x => (if (x < 1) then 0 else (f (x - 1)))) 2) gives 0
C31_WitnessValue ==
  /\ program = CountdownProgram(2)
  /\ runner.stage = "returned"
  /\ runner.value = "0"

(***************************************************************************)
(* The inlay hints provider of the editor.  provider = [listeners,         *)
(* inlayHints, disposables, created, invoked, calls, last]: the Set of     *)
(* listeners and the Map of hints of the instance, the disposables handed  *)
(* out, the number of function objects made by bind, how often each        *)
(* listener function has run, and the calls made.                          *)
(***************************************************************************)
\* A function object.  A listener passed in by the editor has target 0; a
\* bound function calls its target.
Function(object, target) == [object |-> object, target |-> target]

Listeners == {Function(l, 0) : l \in 1..MaxListeners}

ModelIds == {"a", "b"}

HintLists == {<<>>, << "1" >>}

\* listener.bind(thisArg): a new function object whose call runs listener
bind(listener, created) == Function(MaxListeners + created + 1, listener.object)

\* the listener function that a call of fn runs
Runs(fn) == IF fn.target = 0 THEN fn.object ELSE fn.target

\* Set.prototype.delete: a member is removed if it is the same object
SetDelete(s, v) == SelectSeq(s, LAMBDA x : x # v)

\* this.listeners.forEach(listener => listener())
RECURSIVE notifyListeners(_, _)
notifyListeners(listeners, invoked) ==
  IF listeners = <<>> THEN invoked
  ELSE notifyListeners(Tail(listeners),
                       [invoked EXCEPT ![Runs(Head(listeners))] = @ + 1])

\* Map.prototype.set
MapSet(map, key, value) ==
  [k \in (DOMAIN map) \cup {key} |-> IF k = key THEN value ELSE map[k]]

\* Map.prototype.delete
MapDelete(map, key) == [k \in (DOMAIN map) \ {key} |-> map[k]]

\* InlayHintsProvider.instance after construction
InitHints ==
  /\ program = FnProgram
  /\ expressionByLabel = [l \in {} |-> 0]
  /\ expressions = [t \in {} |-> <<>>]
  /\ labelOfvariableDeclaration = [n \in {} |-> ""]
  /\ entries = <<>>
  /\ worklist = <<>>
  /\ translated = <<>>
  /\ script = <<>>
  /\ cursor = 0
  /\ pc = "start"
  /\ error = "none"
  /\ helper = NoHelper
  /\ analysis = <<>>
  /\ parser = NoParse
  /\ runner = NoRun
  /\ provider = [stage |-> "constructed",
                 listeners |-> <<>>,
                 inlayHints |-> [k \in {} |-> <<>>],
                 disposables |-> <<>>,
                 created |-> 0,
                 invoked |-> [l \in 1..MaxListeners |-> 0],
                 calls |-> 0,
                 last |-> "none"]

ProviderFrame ==
  UNCHANGED <<program, expressionByLabel, expressions,
              labelOfvariableDeclaration, entries, worklist, translated,
              script, cursor, pc, error, helper, analysis, parser, runner>>

\* onDidChangeInlayHints(listener, thisArg): the disposable returned keeps
\* the listener it was called with
OnDidChangeInlayHints ==
  /\ provider.stage = "constructed"
  /\ Len(provider.disposables) < MaxSubscriptions
  /\ \E listener \in Listeners :
       provider' = [provider EXCEPT
                      !.listeners = SetAdd(@, bind(listener, provider.created)),
                      !.created = @ + 1,
                      !.disposables = Append(@, [listener |-> listener,
                                                 disposed |-> FALSE]),
                      !.last = "onDidChangeInlayHints"]
  /\ ProviderFrame

\* dispose() of a disposable handed out (it may be called again)
Dispose ==
  /\ provider.stage = "constructed"
  /\ \E d \in 1..Len(provider.disposables) :
       provider' = [provider EXCEPT
                      !.listeners = SetDelete(@, provider.disposables[d].listener),
                      !.disposables[d].disposed = TRUE,
                      !.last = "dispose"]
  /\ ProviderFrame

\* setInlayHints(id, inlayHints)
SetInlayHints ==
  /\ provider.stage = "constructed"
  /\ provider.calls < MaxCalls
  /\ \E id \in ModelIds, hints \in HintLists :
       provider' = [provider EXCEPT
                      !.inlayHints = MapSet(@, id, hints),
                      !.invoked = notifyListeners(provider.listeners, @),
                      !.calls = @ + 1,
                      !.last = "setInlayHints"]
  /\ ProviderFrame

\* clearInlayHints(id)
ClearInlayHints ==
  /\ provider.stage = "constructed"
  /\ provider.calls < MaxCalls
  /\ \E id \in ModelIds :
       provider' = [provider EXCEPT
                      !.inlayHints = MapDelete(@, id),
                      !.invoked = IF id \in DOMAIN provider.inlayHints
                                  THEN notifyListeners(provider.listeners, @)
                                  ELSE @,
                      !.calls = @ + 1,
                      !.last = "clearInlayHints"]
  /\ ProviderFrame

NextHints == OnDidChangeInlayHints \/ Dispose \/ SetInlayHints \/ ClearInlayHints

SpecHints == InitHints /\ [][NextHints]_vars

(***************************************************************************)
(* Listeners after dispose.                                                *)
(***************************************************************************)
\* the subscriptions of listener l, and those not disposed of
Subscriptions(l) ==
  {d \in 1..Len(provider.disposables) :
     provider.disposables[d].listener = Function(l, 0)}

Active(l) == {d \in Subscriptions(l) : ~provider.disposables[d].disposed}

\* the call changes the hints: any setInlayHints, and a clearInlayHints of
\* an id that has hints stored
Notifying ==
  /\ provider'.calls = provider.calls + 1
  /\ provider'.last = "clearInlayHints" =>
       DOMAIN provider'.inlayHints # DOMAIN provider.inlayHints

\* C32: a call of setInlayHints, or of clearInlayHints that removes stored
\* hints, invokes a listener once for each subscription of it whose
\* disposable has not been disposed of: once when it is subscribed once,
\* and not at all when every disposable returned for it has been disposed
\* of; a clearInlayHints that removes nothing invokes no listener.
C32_DisposedListenerSilent ==
  [][\A l \in 1..MaxListeners :
       provider'.invoked[l]
         = provider.invoked[l]
             + (IF Notifying THEN Cardinality(Active(l)) ELSE 0)]_vars

====
